---- MODULE Spec2Model ----
(***************************************************************************)
(* Scoped URL discovery: the three crawl loops of the repository           *)
(* (discover_all over plain HTTP, discover_over_cdp/discover_with_browser  *)
(* over a browser page, and crawler.py's crawl), the pattern classifier    *)
(* in_scope and the sitemap resolver parse_sitemap.                        *)
(***************************************************************************)
EXTENDS Integers, Sequences, FiniteSets, TLC

(***************************************************************************)
(* Bounds of the model.                                                    *)
(***************************************************************************)
MaxDepth == 1
MaxSeeds == 2
MaxPages == 2
MaxRules == 2
MaxLocs == 2

None == "None"

(***************************************************************************)
(* URLs.  A URL is netloc + path + fragment.  A netloc is a sequence of    *)
(* string pieces, so that str.endswith is sequence-suffix; a path is the   *)
(* sequence of its segments; frag "" is "no # in the URL".                 *)
(***************************************************************************)
BaseHost == <<"example.com">>
SubHost  == <<"foo.", "example.com">>
OffHost  == <<"evil.org">>

Url(h, p, f) == [host |-> h, path |-> p, frag |-> f]
NoUrl == Url(<<>>, <<>>, "None")

Root   == Url(BaseHost, <<>>, "")
Plan   == Url(BaseHost, <<"plans", "unlimited">>, "")
PlanA  == Url(BaseHost, <<"plans", "unlimited">>, "a")
Old    == Url(BaseHost, <<"plans", "old">>, "")
About  == Url(BaseHost, <<"about">>, "")
SubAbout == Url(SubHost, <<"about">>, "")
OffPlan  == Url(OffHost, <<"plans", "unlimited">>, "")

\* str.endswith on netlocs
EndsWith(s, t) ==
    /\ Len(t) <= Len(s)
    /\ \A i \in 1..Len(t) : s[Len(s) - Len(t) + i] = t[i]

\* a domain test that lets every URL pass
same_domain_any(b, url) == TRUE
\* same_domain(base, url): urlsplit(url).netloc.endswith(urlsplit(base).netloc)
same_domain(b, url) == EndsWith(url.host, b.host)

\* `if "#" in nxt: nxt = nxt.split("#",1)[0]`
StripFragment(url) == [url EXCEPT !.frag = ""]

(***************************************************************************)
(* href attribute values as found in a page.  kind "abs" is an absolute    *)
(* URL, "path" a path-absolute reference (/x#f), "frag" a fragment-only    *)
(* reference (#f), "bad" a string on which urllib raises ValueError (such  *)
(* as "http://[").                                                         *)
(***************************************************************************)
HAbs(u)     == [kind |-> "abs", host |-> u.host, path |-> u.path, frag |-> u.frag]
HPath(p, f) == [kind |-> "path", host |-> <<>>, path |-> p, frag |-> f]
HFrag(f)    == [kind |-> "frag", host |-> <<>>, path |-> <<>>, frag |-> f]
HBad        == [kind |-> "bad", host |-> <<>>, path |-> <<>>, frag |-> ""]
NoHref      == [kind |-> "none", host |-> <<>>, path |-> <<>>, frag |-> ""]

Raises(href) == href.kind = "bad"

\* urllib.parse.urljoin(base, href) for the reference forms above
urljoin(b, href) ==
    CASE href.kind = "abs"  -> Url(href.host, href.path, href.frag)
      [] href.kind = "path" -> Url(b.host, href.path, href.frag)
      [] OTHER              -> Url(b.host, b.path, href.frag)

(***************************************************************************)
(* Pattern rules.  A compiled pattern is either "^/seg/" (anchored at the  *)
(* first path segment, which must be followed by another one) or the       *)
(* unanchored literal "seg"; search is re.search on the path.              *)
(***************************************************************************)
Pat(a, s) == [anch |-> a, seg |-> s]

\* a pattern that matches every path
SearchMatchesAll(pat, path) == TRUE
Search(pat, path) ==
    IF pat.anch
    THEN Len(path) >= 2 /\ path[1] = pat.seg
    ELSE \E i \in 1..Len(path) : path[i] = pat.seg

\* the include loop returning the hint of the last matching rule
RECURSIVE LastAllow(_, _)
LastAllow(path, allow) ==
    IF allow = <<>> THEN <<FALSE, None>>
    ELSE LET r == LastAllow(path, Tail(allow))
         IN  IF r[1] THEN r
             ELSE IF Search(Head(allow).pat, path) THEN <<TRUE, Head(allow).hint>>
             ELSE <<FALSE, None>>
\* `for pat, hint in allow: if pat.search(path): return True, hint`
RECURSIVE FirstAllow(_, _)
FirstAllow(path, allow) ==
    IF allow = <<>> THEN <<FALSE, None>>
    ELSE IF Search(Head(allow).pat, path) THEN <<TRUE, Head(allow).hint>>
    ELSE FirstAllow(path, Tail(allow))

in_scope_include_first(url, allow, block) ==
    LET r == FirstAllow(url.path, allow)
    IN  IF r[1] THEN r
        ELSE <<FALSE, None>>

in_scope(url, allow, block) ==
    IF \E i \in 1..Len(block) : Search(block[i], url.path)
    THEN <<FALSE, None>>
    ELSE FirstAllow(url.path, allow)

(***************************************************************************)
(* Sitemaps.  web.robots is the answer to GET /robots.txt, web.maps the    *)
(* answer to GET of each sitemap URL.  A sitemap document has a root tag   *)
(* and the texts of its <loc> elements in document order; the text None    *)
(* (NoUrl in a URL-set) is an empty <loc/>, on which `.text.strip()`       *)
(* raises.                                                                 *)
(***************************************************************************)
SmNames == {"sm1", "sm2", "sm3"}

Doc(st, root, locs) == [status |-> st, root |-> root, locs |-> locs]

\* robots_sitemaps without `if r.status_code == 200`
robots_sitemaps_any_status(w) == w.robots.sitemaps
\* robots_sitemaps(base, cli)
robots_sitemaps(w) ==
    IF w.robots.status = "ok" THEN w.robots.sitemaps ELSE <<>>

\* `for u in xml.findall(".//{*}url/{*}loc"): urls.append(u.text.strip())`
RECURSIVE UrlsetLocs(_, _)
UrlsetLocs(locs, urls) ==
    IF locs = <<>> THEN urls
    ELSE IF Head(locs) = NoUrl THEN urls
    ELSE UrlsetLocs(Tail(locs), Append(urls, Head(locs)))

\* parse_sitemap(cli, url); `fuel` is what is left of the interpreter's call
\* stack: with none left the call raises RecursionError inside the try block
\* and line 56 returns the empty list.
RECURSIVE parse_sitemap(_, _, _)

\* an index whose children are read without following their own children
RECURSIVE IndexLocsOneLevel(_, _, _, _)
IndexLocsOneLevel(w, locs, urls, fuel) ==
    IF locs = <<>> THEN urls
    ELSE IF Head(locs) = None THEN urls
    ELSE LET child == Head(locs)
             leaf  == /\ child \in DOMAIN w.maps
                      /\ w.maps[child].status = "ok"
                      /\ w.maps[child].root = "urlset"
         IN  IndexLocsOneLevel(w, Tail(locs),
                 urls \o (IF leaf THEN UrlsetLocs(w.maps[child].locs, <<>>) ELSE <<>>),
                 fuel)

RECURSIVE IndexLocs(_, _, _, _)
IndexLocs(w, locs, urls, fuel) ==
    IF locs = <<>> THEN urls
    ELSE IF Head(locs) = None THEN urls
    ELSE IndexLocs(w, Tail(locs),
                   urls \o parse_sitemap(w, Head(locs), fuel - 1), fuel)

parse_sitemap(w, url, fuel) ==
    IF fuel = 0 THEN <<>>
    ELSE IF url \notin DOMAIN w.maps THEN <<>>
    ELSE LET doc == w.maps[url]
         IN  IF doc.status # "ok" THEN <<>>
             ELSE IF doc.root = "sitemapindex"
                  THEN IndexLocs(w, doc.locs, <<>>, fuel)
             ELSE IF doc.root = "urlset"
                  THEN UrlsetLocs(doc.locs, <<>>)
             ELSE <<>>

(***************************************************************************)
(* The site.  A response to GET url: status "ok" (200), "non200", or       *)
(* "error" (the request raises: timeout, connection error); final is the   *)
(* URL served after redirects, canon the href of <link rel=canonical>      *)
(* (NoHref when the page declares none), links the href values of the      *)
(* page's anchors in document order.                                       *)
(***************************************************************************)
Page(st, fin, canon, links) ==
    [status |-> st, final |-> fin, canon |-> canon, links |-> links]

\* The pages the site may serve: declared canonical href and anchors.
Pages ==
    { [canon |-> NoHref, links |-> <<HPath(Plan.path, ""), HPath(About.path, "")>>],
      [canon |-> NoHref,
       links |-> <<HPath(Plan.path, "a"), HPath(Plan.path, "b"), HPath(Root.path, "")>>],
      [canon |-> HPath(Plan.path, ""), links |-> <<HPath(Old.path, ""), HFrag("b")>>],
      [canon |-> HPath(Plan.path, "a"),
       links |-> <<HPath(About.path, ""), HBad, HPath(Plan.path, "")>>],
      [canon |-> HAbs(OffPlan), links |-> <<HAbs(OffPlan)>>],
      [canon |-> NoHref, links |-> <<>>],
      [canon |-> NoHref, links |-> <<HBad, HPath(About.path, "")>>] }

\* /plans/old and /about may redirect to /plans/unlimited
Finals(url) == IF url \in {Old, About} THEN {url, Plan} ELSE {url}

Responses(url) ==
    { Page("error", url, NoHref, <<>>), Page("non200", url, NoHref, <<>>) }
    \cup { Page("ok", f, p.canon, p.links) : f \in Finals(url), p \in Pages }

(***************************************************************************)
(* State.                                                                  *)
(***************************************************************************)
VARIABLES
    engine,      \* which crawl loop runs: "discover_all", "browser", "crawl"
    seeds,       \* seed list
    allow,       \* include rules, in configured order: <<[pat, hint], ...>>
    block,       \* exclude rules
    max_depth,
    max_pages,   \* crawl's page limit
    web,         \* robots.txt and the sitemaps of the site
    pc,          \* position of the run
    q,           \* frontier: sequence of <<url, depth>>
    seen,        \* visited set of the run
    hits,        \* hit map: set of <<url, entity>> with one entity per url
    cur,         \* the <<url, depth>> popped and being processed
    visited,     \* crawler.py's module-level visited set
    to_visit,    \* crawl's frontier: sequence of <<url, depth>>
    results,     \* crawl's results: the url of each page_data, in order
    served,      \* what the site has answered so far: url -> response
    fetched,     \* the fetches of the loop so far, in order: <<url, depth>>
    unthrottled, \* fetches of the loop since the last politeness delay
    run,         \* 1 in the first run of the process, 2 in a second one
    prev,        \* what the first run returned, once a second one is started
    call         \* a call of a pure function: <<name, argument, value>>

config == <<engine, seeds, allow, block, max_depth, max_pages, web>>
\* what no step of a run changes
frame == <<config, run, prev, call>>
prog == <<q, seen, hits>>
cprog == <<visited, to_visit, results>>
vars == <<engine, seeds, allow, block, max_depth, max_pages, web,
          pc, q, seen, hits, cur, visited, to_visit, results,
          served, fetched, unthrottled, run, prev, call>>

\* --base: the base URL of the run
base == Root

NoCur == <<NoUrl, 0>>
NoCall == <<"none", NoUrl, <<>>>>
NoneServed == [u \in {} |-> Page("error", NoUrl, NoHref, <<>>)]

\* hits[k] = v on a dict held as a set of <<key, value>> pairs
Put(h, k, v) == { p \in h : p[1] # k } \cup { <<k, v>> }
Keys(h) == { p[1] : p \in h }

SeqsUpTo(S, n) == UNION { [1..k -> S] : k \in 0..n }

(***************************************************************************)
(* discover_all, lines 87-93: the sitemap phase.                           *)
(***************************************************************************)
\* the sitemap loop recording the first URL only
RecordFirstOnly(h, urls, al, bl) ==
    IF urls = <<>> THEN h
    ELSE LET u == Head(urls)
             r == in_scope(u, al, bl)
         IN  IF same_domain(base, u) /\ r[1] THEN Put(h, u, r[2]) ELSE h
RECURSIVE RecordSitemapUrls(_, _, _, _)
RecordSitemapUrls(h, urls, al, bl) ==
    IF urls = <<>> THEN h
    ELSE LET u == Head(urls)
             r == in_scope(u, al, bl)
         IN  RecordSitemapUrls(
                 IF same_domain(base, u) /\ r[1] THEN Put(h, u, r[2]) ELSE h,
                 Tail(urls), al, bl)

RecursionLimit == 4

RECURSIVE SitemapHits(_, _, _, _, _)
SitemapHits(h, smaps, w, al, bl) ==
    IF smaps = <<>> THEN h
    ELSE SitemapHits(
             RecordSitemapUrls(h, parse_sitemap(w, Head(smaps), RecursionLimit), al, bl),
             Tail(smaps), w, al, bl)

\* `for s in seeds: if same_domain(base, s): q.append((s, 0))`
RECURSIVE SeedQueue(_)
SeedQueue(ss) ==
    IF ss = <<>> THEN <<>>
    ELSE IF same_domain(base, Head(ss))
         THEN <<<<Head(ss), 0>>>> \o SeedQueue(Tail(ss))
         ELSE SeedQueue(Tail(ss))

(***************************************************************************)
(* The loop body.                                                          *)
(***************************************************************************)
\* `if url in seen or d > max_depth: continue`
SkipDepthOnly(url, d) == d > max_depth
\* the skip test without `d > max_depth`
SkipSeenOnly(url, d) == url \in seen
Skip(url, d) == url \in seen \/ d > max_depth

\* `url, d = q.popleft()`: what is left of the queue
RestPeek(queue) == queue
Rest(queue) == Tail(queue)

\* discover_all's canonical_url(doc, url): a canonical href that urljoin
\* rejects is swallowed by the inner try and the requested url is returned
canonical_url(r, url) ==
    IF r.canon # NoHref /\ ~Raises(r.canon) THEN urljoin(url, r.canon) ELSE url

\* the browser variants' canonical_url(page_url, canonical_href)
browser_canonical_url(page_url, can_href) ==
    IF can_href # NoHref THEN urljoin(page_url, can_href) ELSE page_url

\* The loop over the page's hrefs: each is resolved against `against`, its
\* fragment stripped, and appended at depth d+1 when same-domain and not in
\* seenNow.  An href that urllib rejects raises out of the loop: what was
\* appended before it stays.
\* the children enqueued at the depth of their parent
RECURSIVE ChildrenSameDepth(_, _, _, _, _)
ChildrenSameDepth(queue, against, links, d, seenNow) ==
    IF links = <<>> THEN [q |-> queue, raised |-> FALSE]
    ELSE IF Raises(Head(links)) THEN [q |-> queue, raised |-> TRUE]
    ELSE LET nxt == StripFragment(urljoin(against, Head(links)))
         IN  ChildrenSameDepth(IF same_domain(base, nxt) /\ nxt \notin seenNow
                               THEN Append(queue, <<nxt, d>>)
                               ELSE queue,
                               against, Tail(links), d, seenNow)

\* the children put at the front of the queue instead of its back
RECURSIVE ChildrenAtFront(_, _, _, _, _)
ChildrenAtFront(queue, against, links, d, seenNow) ==
    IF links = <<>> THEN [q |-> queue, raised |-> FALSE]
    ELSE IF Raises(Head(links)) THEN [q |-> queue, raised |-> TRUE]
    ELSE LET nxt == StripFragment(urljoin(against, Head(links)))
         IN  ChildrenAtFront(IF same_domain(base, nxt) /\ nxt \notin seenNow
                             THEN <<<<nxt, d + 1>>>> \o queue
                             ELSE queue,
                             against, Tail(links), d, seenNow)
RECURSIVE Children(_, _, _, _, _)
Children(queue, against, links, d, seenNow) ==
    IF links = <<>> THEN [q |-> queue, raised |-> FALSE]
    ELSE IF Raises(Head(links)) THEN [q |-> queue, raised |-> TRUE]
    ELSE LET nxt == StripFragment(urljoin(against, Head(links)))
         IN  Children(IF same_domain(base, nxt) /\ nxt \notin seenNow
                      THEN Append(queue, <<nxt, d + 1>>)
                      ELSE queue,
                      against, Tail(links), d, seenNow)

\* the site's answer to GET url: a fixed function of the url once given
Answer(url) == IF url \in DOMAIN served THEN {served[url]} ELSE Responses(url)

(***************************************************************************)
(* Inputs of a run.                                                        *)
(***************************************************************************)
Engines == {"discover_all", "browser", "crawl"}

SeedUrls == {Root, PlanA, OffPlan}
SeedLists == SeqsUpTo(SeedUrls, MaxSeeds)

Rule(pat, hint) == [pat |-> pat, hint |-> hint]
RuleConfigs ==
    { [allow |-> <<Rule(Pat(TRUE, "plans"), "plan")>>, block |-> <<>>],
      [allow |-> <<Rule(Pat(TRUE, "plans"), "plan"), Rule(Pat(FALSE, "about"), "info"),
                   Rule(Pat(FALSE, "unlimited"), "offer")>>,
       block |-> <<Pat(FALSE, "old")>>] }

NoWeb == [robots |-> [status |-> "non200", sitemaps |-> <<>>],
          maps |-> [n \in {} |-> Doc("non200", None, <<>>)]]
FlatWeb == [robots |-> [status |-> "ok", sitemaps |-> <<"sm1">>],
            maps |-> [n \in {"sm1"} |-> Doc("ok", "urlset", <<Plan, Old, OffPlan>>)]]
\* robots.txt cannot be fetched, while the sitemap it would name is served
DownWeb == [robots |-> [status |-> "error", sitemaps |-> <<"sm1">>],
            maps |-> FlatWeb.maps]
Webs == {NoWeb, FlatWeb, DownWeb}

\* crawl(start_url, max_pages, max_depth) takes one start URL, no rules and
\* no sitemap
Init ==
    /\ engine \in Engines
    /\ seeds \in IF engine = "crawl" THEN { <<u>> : u \in SeedUrls } ELSE SeedLists
    /\ \E rc \in IF engine = "crawl" THEN {[allow |-> <<>>, block |-> <<>>]}
                                     ELSE RuleConfigs :
          allow = rc.allow /\ block = rc.block
    /\ max_depth \in 0..MaxDepth
    /\ max_pages \in IF engine = "crawl" THEN 0..MaxPages ELSE {0}
    /\ web \in IF engine = "discover_all" THEN Webs ELSE {NoWeb}
    /\ visited = {}
    /\ to_visit = <<>>
    /\ results = <<>>
    /\ pc = "start"
    /\ q = <<>>
    /\ seen = {}
    /\ hits = {}
    /\ cur = NoCur
    /\ served = NoneServed
    /\ fetched = <<>>
    /\ unthrottled = 0
    /\ run = 1
    /\ prev = {}
    /\ call = NoCall

(***************************************************************************)
(* discover_all (src/discovery_all.py 81-129).                             *)
(***************************************************************************)
\* `seen = set()`
StaleSeen == seen
NewSeen == {}

\* lines 82-99: sitemaps first, then the queue is seeded
StartAll ==
    /\ engine = "discover_all" /\ pc = "start"
    /\ seen' = NewSeen
    /\ hits' = SitemapHits({}, robots_sitemaps(web), web, allow, block)
    /\ q' = SeedQueue(seeds)
    /\ pc' = "loop"
    /\ UNCHANGED <<frame, cur, cprog, served, fetched, unthrottled>>

\* lines 101-104: an entry is popped and discarded
Discard ==
    /\ engine # "crawl" /\ pc = "loop" /\ q # <<>>
    /\ Skip(Head(q)[1], Head(q)[2])
    /\ q' = Rest(q)
    /\ UNCHANGED <<frame, pc, seen, hits, cur, cprog, served, fetched, unthrottled>>

\* lines 101-105: an entry is popped and marked visited
Visit ==
    /\ engine # "crawl" /\ pc = "loop" /\ q # <<>>
    /\ ~Skip(Head(q)[1], Head(q)[2])
    /\ q' = Rest(q)
    /\ cur' = Head(q)
    /\ seen' = seen \cup {Head(q)[1]}
    /\ pc' = "fetch"
    /\ UNCHANGED <<frame, hits, cprog, served, fetched, unthrottled>>

\* `while q:` fails: the function returns hits
Exit ==
    /\ engine # "crawl" /\ pc = "loop" /\ q = <<>>
    /\ pc' = "done"
    /\ UNCHANGED <<frame, prog, cur, cprog, served, fetched, unthrottled>>

\* the try block without `if r.status_code != 200: continue`
AllAfterFetchAnyStatus(url, d, r) ==
    IF r.status = "error"
    THEN /\ pc' = "loop"
         /\ UNCHANGED <<q, seen, hits>>
    ELSE LET can == canonical_url(r, url)
             sc  == in_scope(can, allow, block)
             ch  == Children(q, can, r.links, d, seen \cup {can})
         IN  /\ seen' = seen \cup {can}
             /\ hits' = IF sc[1] THEN Put(hits, can, sc[2]) ELSE hits
             /\ q' = ch.q
             /\ pc' = IF ch.raised THEN "loop" ELSE "sleep"

\* lines 106-128 but for the sleep: the request and what the try block does
\* with the answer
AllAfterFetch(url, d, r) ==
    IF r.status # "ok"
    THEN \* cli.get raises, or `if r.status_code != 200: continue`
         /\ pc' = "loop"
         /\ UNCHANGED <<q, seen, hits>>
    ELSE LET can == canonical_url(r, url)
             sc  == in_scope(can, allow, block)
             ch  == Children(q, can, r.links, d, seen \cup {can})
         IN  /\ seen' = seen \cup {can}
             /\ hits' = IF sc[1] THEN Put(hits, can, sc[2]) ELSE hits
             /\ q' = ch.q
             /\ pc' = IF ch.raised THEN "loop" ELSE "sleep"

FetchAll ==
    /\ engine = "discover_all" /\ pc = "fetch"
    /\ \E r \in Answer(cur[1]) :
          /\ served' = (cur[1] :> r) @@ served
          /\ AllAfterFetch(cur[1], cur[2], r)
    /\ fetched' = Append(fetched, cur)
    /\ unthrottled' = unthrottled + 1
    /\ cur' = NoCur
    /\ UNCHANGED <<frame, cprog>>

\* `time.sleep(throttle)`
Sleep ==
    /\ pc = "sleep"
    /\ unthrottled' = 0
    /\ pc' = "loop"
    /\ UNCHANGED <<frame, prog, cur, cprog, served, fetched>>

(***************************************************************************)
(* discover_over_cdp (src/discovery_cdp.py 49-112) and                     *)
(* discover_with_browser (src/discovery_playwright.py 46-109, 156-234):    *)
(* the same loop over a browser page.                                      *)
(***************************************************************************)
\* page.goto(base) outside any try, then the queue is seeded
StartBrowser ==
    /\ engine = "browser" /\ pc = "start"
    /\ seen' = NewSeen
    /\ hits' = {}
    /\ \/ /\ q' = SeedQueue(seeds)
          /\ pc' = "loop"
       \/ /\ pc' = "raised"
          /\ q' = <<>>
    /\ UNCHANGED <<frame, cur, cprog, served, fetched, unthrottled>>

\* page.goto raises only when the navigation fails: a page served with a
\* non-200 status is processed like any other.  page.url is the final URL;
\* e.href is the browser's resolution of the href against the document URL.
BrowserAfterFetch(url, d, r) ==
    IF r.status = "error" \/ Raises(r.canon)
    THEN /\ pc' = "loop"
         /\ UNCHANGED <<q, seen, hits>>
    ELSE LET can == browser_canonical_url(r.final, r.canon)
             sc  == in_scope(can, allow, block)
             ch  == Children(q, r.final, r.links, d, seen)
         IN  /\ seen' = seen
             /\ hits' = IF sc[1] THEN Put(hits, can, sc[2]) ELSE hits
             /\ q' = ch.q
             /\ pc' = IF ch.raised THEN "loop" ELSE "sleep"

FetchBrowser ==
    /\ engine = "browser" /\ pc = "fetch"
    /\ \E r \in Answer(cur[1]) :
          /\ served' = (cur[1] :> r) @@ served
          /\ BrowserAfterFetch(cur[1], cur[2], r)
    /\ fetched' = Append(fetched, cur)
    /\ unthrottled' = unthrottled + 1
    /\ cur' = NoCur
    /\ UNCHANGED <<frame, cprog>>

(***************************************************************************)
(* crawl (src/crawler.py 65-89) with scrape_page (13-63).  The image       *)
(* downloads of scrape_page are content scraping and are left out.         *)
(***************************************************************************)
\* lines 67-69
StartCrawl ==
    /\ engine = "crawl" /\ pc = "start"
    /\ to_visit' = <<<<seeds[1], 0>>>>
    /\ results' = <<>>
    /\ pc' = "loop"
    /\ UNCHANGED <<frame, prog, cur, visited, served, fetched, unthrottled>>

\* `while to_visit and len(results) < max_pages`
\* the loop condition without the page limit
LoopingNoLimit == to_visit # <<>>
Looping == to_visit # <<>> /\ Len(results) < max_pages

\* `if url in visited or depth > max_depth: continue`
CrawlSkip(url, depth) == url \in visited \/ depth > max_depth

CrawlDiscard ==
    /\ engine = "crawl" /\ pc = "loop" /\ Looping
    /\ CrawlSkip(Head(to_visit)[1], Head(to_visit)[2])
    /\ to_visit' = Rest(to_visit)
    /\ UNCHANGED <<frame, pc, prog, cur, visited, results, served, fetched, unthrottled>>

CrawlVisit ==
    /\ engine = "crawl" /\ pc = "loop" /\ Looping
    /\ ~CrawlSkip(Head(to_visit)[1], Head(to_visit)[2])
    /\ to_visit' = Rest(to_visit)
    /\ cur' = Head(to_visit)
    /\ visited' = visited \cup {Head(to_visit)[1]}
    /\ pc' = "fetch"
    /\ UNCHANGED <<frame, prog, results, served, fetched, unthrottled>>

CrawlExit ==
    /\ engine = "crawl" /\ pc = "loop" /\ ~Looping
    /\ pc' = "done"
    /\ UNCHANGED <<frame, prog, cur, cprog, served, fetched, unthrottled>>

\* scrape_page lines 45-51: the internal links of the page, or raised when
\* urljoin rejects an href (line 61 then returns None, [])
RECURSIVE ScrapeLinks(_, _, _, _)
ScrapeLinks(links, url, hrefs, domain) ==
    IF hrefs = <<>> THEN [links |-> links, raised |-> FALSE]
    ELSE IF Raises(Head(hrefs)) THEN [links |-> <<>>, raised |-> TRUE]
    ELSE LET link == urljoin(url, Head(hrefs))
         IN  ScrapeLinks(IF link.host = domain /\ link \notin visited
                         THEN Append(links, link) ELSE links,
                         url, Tail(hrefs), domain)

\* crawl lines 83-85
RECURSIVE AddLinks(_, _, _)
AddLinks(queue, links, depth) ==
    IF links = <<>> THEN queue
    ELSE AddLinks(IF Head(links) \notin visited
                  THEN Append(queue, <<Head(links), depth + 1>>) ELSE queue,
                  Tail(links), depth)

\* lines 77-85: scrape_page(url, domain) and what crawl does with its result
CrawlAfterScrape(url, depth, r) ==
    LET sl == ScrapeLinks(<<>>, url, r.links, seeds[1].host)
    IN  IF r.status # "ok" \/ sl.raised
        THEN UNCHANGED <<to_visit, results>>
        ELSE /\ results' = Append(results, url)
             /\ to_visit' = AddLinks(to_visit, sl.links, depth)

Scrape ==
    /\ engine = "crawl" /\ pc = "fetch"
    /\ \E r \in Answer(cur[1]) :
          /\ served' = (cur[1] :> r) @@ served
          /\ CrawlAfterScrape(cur[1], cur[2], r)
    /\ fetched' = Append(fetched, cur)
    /\ unthrottled' = unthrottled + 1
    /\ cur' = NoCur
    /\ pc' = "sleep"
    /\ UNCHANGED <<frame, prog, visited>>

Next ==
    \/ StartAll
    \/ StartCrawl
    \/ CrawlDiscard
    \/ CrawlVisit
    \/ CrawlExit
    \/ Scrape
    \/ StartBrowser
    \/ Discard
    \/ Visit
    \/ Exit
    \/ FetchAll
    \/ FetchBrowser
    \/ Sleep

Spec == Init /\ [][Next]_vars

\* the loop is one sequential thread: a step that can be taken is taken
FairSpec == Spec /\ WF_vars(Next)

(***************************************************************************)
(* A second run in the same process, against the same site.                *)
(***************************************************************************)
Returned == IF engine = "crawl" THEN results ELSE hits

Restart ==
    /\ pc = "done" /\ run = 1
    /\ run' = 2
    /\ prev' = Returned
    /\ pc' = "start"
    /\ fetched' = <<>>
    /\ unthrottled' = 0
    /\ UNCHANGED <<config, call, prog, cur, cprog, served>>

NextTwice == Next \/ Restart

SpecTwice == Init /\ [][NextTwice]_vars

(***************************************************************************)
(* in_scope and parse_sitemap called on their own.                         *)
(***************************************************************************)
Idle ==
    /\ engine = "none"
    /\ seeds = <<>>
    /\ max_depth = 0
    /\ max_pages = 0
    /\ pc = "pure"
    /\ q = <<>>
    /\ seen = {}
    /\ hits = {}
    /\ cur = NoCur
    /\ visited = {}
    /\ to_visit = <<>>
    /\ results = <<>>
    /\ served = NoneServed
    /\ fetched = <<>>
    /\ unthrottled = 0
    /\ run = 1
    /\ prev = {}
    /\ call = NoCall

ScopeUrls == { Root, Plan, PlanA, Old, About, OffPlan,
               Url(BaseHost, <<"about", "plans">>, "") }
PatPool == { Pat(TRUE, "plans"), Pat(FALSE, "old"), Pat(FALSE, "about") }
RulePool == { Rule(Pat(TRUE, "plans"), "plan"), Rule(Pat(FALSE, "old"), "legacy"),
              Rule(Pat(FALSE, "about"), "info") }

InitScope ==
    /\ Idle
    /\ allow \in SeqsUpTo(RulePool, MaxRules)
    /\ block \in SeqsUpTo(PatPool, MaxRules)
    /\ web = NoWeb

Classify ==
    /\ pc = "pure"
    /\ \E u \in ScopeUrls : call' = <<"in_scope", u, in_scope(u, allow, block)>>
    /\ UNCHANGED <<config, run, prev, pc, prog, cur, cprog, served, fetched, unthrottled>>

SpecScope == InitScope /\ [][Classify]_vars

DocPool ==
    { Doc("non200", None, <<>>), Doc("error", None, <<>>), Doc("ok", "malformed", <<>>) }
    \cup { Doc("ok", "urlset", l) : l \in { <<Plan>>, <<About, Old>>, <<Plan, NoUrl, About>> } }
    \cup { Doc("ok", "sitemapindex", l) : l \in SeqsUpTo(SmNames, MaxLocs) }
    \cup { Doc("ok", "sitemapindex", <<None, n>>) : n \in SmNames }

InitSitemap ==
    /\ Idle
    /\ allow = <<>>
    /\ block = <<>>
    /\ \E m \in [SmNames -> DocPool] :
          web = [robots |-> [status |-> "ok", sitemaps |-> <<"sm1">>], maps |-> m]

Resolve ==
    /\ pc = "pure"
    /\ \E sm \in SmNames :
          call' = <<"parse_sitemap", sm, parse_sitemap(web, sm, RecursionLimit)>>
    /\ UNCHANGED <<config, run, prev, pc, prog, cur, cprog, served, fetched, unthrottled>>

SpecSitemap == InitSitemap /\ [][Resolve]_vars

(***************************************************************************)
(* parse_sitemap call by call: the stack of its nested calls.  A frame is  *)
(* one call: its url, its local `urls`, and the <sitemap><loc> texts its   *)
(* index loop has still to read.  The interpreter refuses to nest calls    *)
(* deeper than its recursion limit: the call made at the limit raises      *)
(* RecursionError inside its own try block and returns the empty list.     *)
(* call = <<"descending", stack, <<>>>> while the outermost call runs, and *)
(* <<"parse_sitemap", url, urls>> once it has returned.                    *)
(***************************************************************************)
\* lines 42-48 and 53-55: a call up to its index loop
Frame(w, url) ==
    IF url \notin DOMAIN w.maps
    THEN [url |-> url, urls |-> <<>>, todo |-> <<>>]
    ELSE LET doc == w.maps[url]
         IN  IF doc.status = "ok" /\ doc.root = "sitemapindex"
             THEN [url |-> url, urls |-> <<>>, todo |-> doc.locs]
             ELSE IF doc.status = "ok" /\ doc.root = "urlset"
             THEN [url |-> url, urls |-> UrlsetLocs(doc.locs, <<>>), todo |-> <<>>]
             ELSE [url |-> url, urls |-> <<>>, todo |-> <<>>]

\* an interpreter without a recursion limit
NeverAtLimit(stack) == FALSE
\* the interpreter's recursion limit is reached
AtLimit(stack) == Len(stack) >= RecursionLimit

Descending == pc = "pure" /\ call[1] = "descending"

\* parse_sitemap(cli, url) is called from outside
Enter ==
    /\ pc = "pure" /\ call = NoCall
    /\ \E sm \in SmNames : call' = <<"descending", <<Frame(web, sm)>>, <<>>>>
    /\ UNCHANGED <<config, run, prev, pc, prog, cur, cprog, served, fetched, unthrottled>>

\* lines 50-52: the index loop of the innermost call reads its next entry
Descend ==
    /\ Descending
    /\ LET stack == call[2]
           n     == Len(stack)
           top   == stack[n]
       IN  /\ top.todo # <<>>
           /\ LET child == Head(top.todo)
              IN  call' =
                    IF child = None
                    THEN \* sm.text.strip() raises: line 56 returns urls
                         <<"descending", [stack EXCEPT ![n].todo = <<>>], <<>>>>
                    ELSE IF AtLimit(stack)
                    THEN \* the nested call raises RecursionError and returns []
                         <<"descending", [stack EXCEPT ![n].todo = Tail(top.todo)], <<>>>>
                    ELSE <<"descending",
                           Append([stack EXCEPT ![n].todo = Tail(top.todo)],
                                  Frame(web, child)), <<>>>>
    /\ UNCHANGED <<config, run, prev, pc, prog, cur, cprog, served, fetched, unthrottled>>

\* lines 52 and 56-58: the innermost call returns its urls to its caller
Return ==
    /\ Descending
    /\ LET stack == call[2]
           n     == Len(stack)
           top   == stack[n]
       IN  /\ top.todo = <<>>
           /\ call' =
                IF n = 1 THEN <<"parse_sitemap", top.url, top.urls>>
                ELSE <<"descending",
                       [SubSeq(stack, 1, n - 1) EXCEPT
                            ![n - 1].urls = stack[n - 1].urls \o top.urls],
                       <<>>>>
    /\ UNCHANGED <<config, run, prev, pc, prog, cur, cprog, served, fetched, unthrottled>>

NextDescent ==
    \/ Enter
    \/ Descend
    \/ Return

SpecDescent == InitSitemap /\ [][NextDescent]_vars

\* the interpreter runs the call: a step that can be taken is taken
FairDescent == SpecDescent /\ WF_vars(NextDescent)

(***************************************************************************)
(* Helpers of the properties.                                              *)
(***************************************************************************)
Range(f) == { f[i] : i \in DOMAIN f }
FetchedUrls == { fetched[i][1] : i \in 1..Len(fetched) }
Discovering == engine \in {"discover_all", "browser"}

\* the fetch of u ran the loop body to the classification of a canonical URL
Processed(u) ==
    /\ u \in DOMAIN served
    /\ IF engine = "discover_all" THEN served[u].status = "ok"
       ELSE served[u].status # "error" /\ ~Raises(served[u].canon)

\* the canonical URL the loop determined for the page served for u
CanOf(u) ==
    IF engine = "discover_all" THEN canonical_url(served[u], u)
    ELSE browser_canonical_url(served[u].final, served[u].canon)

\* the URLs sitemap resolution returns in this run
SitemapUrls ==
    UNION { Range(parse_sitemap(web, sm, RecursionLimit)) :
            sm \in Range(robots_sitemaps(web)) }

SameDomainSeeds == { s \in Range(seeds) : same_domain(base, s) }

(***************************************************************************)
(* C1: within one run no URL is fetched more than once: the fetch log of   *)
(* the loop never holds the same URL at two positions, also when the URL   *)
(* sat in the frontier several times.                                      *)
(***************************************************************************)
C1_FetchedAtMostOnce ==
    \A i, j \in 1..Len(fetched) : fetched[i][1] = fetched[j][1] => i = j

\* a URL already fetched sits in the frontier again
C1_Witness ==
    /\ engine = "discover_all"
    /\ \E i \in 1..Len(q) : q[i][2] >= 1 /\ q[i][1] \in FetchedUrls

(***************************************************************************)
(* C4: between any two consecutive fetches of the loop there is a          *)
(* politeness delay, whatever the outcome of the first: never two fetches  *)
(* without a delay in between.                                             *)
(***************************************************************************)
C4_DelayBetweenFetches == unthrottled <= 1

(***************************************************************************)
(* C5: with maxDepth = 0 only same-domain seeds are fetched, at depth 0,   *)
(* and every key of the hit map is an in-scope sitemap entry or the        *)
(* in-scope canonical URL determined for a fetched seed's page.            *)
(***************************************************************************)
C5_DepthZero ==
    max_depth = 0 =>
        /\ \A i \in 1..Len(fetched) :
              /\ fetched[i][2] = 0
              /\ fetched[i][1] \in Range(seeds)
              /\ Discovering => same_domain(base, fetched[i][1])
        /\ \A h \in hits :
              /\ in_scope(h[1], allow, block) = <<TRUE, h[2]>>
              /\ \/ h[1] \in SitemapUrls
                 \/ \E s \in FetchedUrls : Processed(s) /\ h[1] = CanOf(s)

\* a seed's page with links was fetched at maxDepth 0 and the run is over
C5_Witness ==
    /\ max_depth = 0 /\ pc = "done" /\ Discovering
    /\ hits # {}
    /\ \E u \in FetchedUrls : served[u].status = "ok" /\ served[u].links # <<>>

\* C5 as stated: the hit map holds seed entries and sitemap entries only
C5_Original ==
    max_depth = 0 =>
        /\ \A i \in 1..Len(fetched) : fetched[i][1] \in SameDomainSeeds
        /\ Keys(hits) \subseteq (SameDomainSeeds \cup SitemapUrls)

(***************************************************************************)
(* C7: URLs that differ only in their fragment are one visited-set entry   *)
(* and at most one key of the hit map.                                     *)
(***************************************************************************)
C7_FragmentsCollapse ==
    /\ \A u, v \in seen : StripFragment(u) = StripFragment(v) => u = v
    /\ \A u, v \in Keys(hits) : StripFragment(u) = StripFragment(v) => u = v

(***************************************************************************)
(* C8: after every successful fetch cycle the canonical URL of the page is *)
(* in the visited set, and it is not fetched later in the run.             *)
(***************************************************************************)
C8_CanonicalVisited ==
    Discovering =>
        /\ \A u \in FetchedUrls : Processed(u) => CanOf(u) \in seen
        /\ \A i, j \in 1..Len(fetched) :
              (i < j /\ Processed(fetched[i][1]))
                  => fetched[j][1] # CanOf(fetched[i][1])

(***************************************************************************)
(* C2: if the path of a URL matches at least one exclude rule, in_scope    *)
(* returns (False, None), whatever include rules match it and whatever     *)
(* the order of the rules.                                                 *)
(***************************************************************************)
Excluded(u) == \E i \in 1..Len(block) : Search(block[i], u.path)

C2_ExcludePrecedence ==
    (call[1] = "in_scope" /\ Excluded(call[2])) => call[3] = <<FALSE, None>>

\* a URL matched by the first include rule and by the last exclude rule only
C2_Witness ==
    /\ call[1] = "in_scope"
    /\ Len(allow) = 2 /\ Len(block) = 2
    /\ Search(allow[1].pat, call[2].path)
    /\ ~Search(block[1], call[2].path) /\ Search(block[2], call[2].path)
    /\ call[3] = <<FALSE, None>>

(***************************************************************************)
(* C3: the crawl loop comes to an end: the run reaches the return, with    *)
(* an empty frontier in the discovery loops, also on cyclic link graphs.   *)
(***************************************************************************)
Finished ==
    \/ pc = "raised"
    \/ pc = "done" /\ (Discovering => q = <<>>)

C3_Terminates == <>Finished

\* the run is over and a fetched page links to a page fetched before it
C3_Witness ==
    /\ pc = "done" /\ Discovering
    /\ \E i, j \in 1..Len(fetched) :
          /\ i <= j
          /\ served[fetched[j][1]].status = "ok"
          /\ \E k \in 1..Len(served[fetched[j][1]].links) :
                /\ ~Raises(served[fetched[j][1]].links[k])
                /\ StripFragment(urljoin(fetched[j][1], served[fetched[j][1]].links[k]))
                       = fetched[i][1]

(***************************************************************************)
(* C6: a fetch that fails (the request raises, or a non-200 status) in     *)
(* discover_all or crawl records nothing and enqueues nothing, leaves the  *)
(* rest of the frontier as it is and the loop running, and the URL is not  *)
(* fetched again; the loop ends only on its own condition.                 *)
(***************************************************************************)
C6_FailureIsLocal ==
    [][ /\ ( /\ engine \in {"discover_all", "crawl"}
             /\ Len(fetched') = Len(fetched) + 1 )
          => LET u == fetched'[Len(fetched')][1]
             IN  /\ u \notin FetchedUrls
                 /\ served'[u].status # "ok"
                      => /\ hits' = hits
                         /\ results' = results
                         /\ q' = q
                         /\ to_visit' = to_visit
                         /\ u \in (seen' \cup visited')
                         /\ pc' \in {"loop", "sleep"}
        /\ (engine = "discover_all" /\ pc' = "done") => q' = <<>>
        /\ (engine = "crawl" /\ pc' = "done")
              => (to_visit' = <<>> \/ Len(results') >= max_pages)
      ]_vars

\* a fetch failed while the frontier held entries, and a later one succeeded
C6_Witness ==
    /\ engine = "discover_all" /\ pc = "done"
    /\ \E i, j \in 1..Len(fetched) :
          /\ i < j
          /\ served[fetched[i][1]].status # "ok"
          /\ served[fetched[j][1]].status = "ok"
          /\ fetched[j][1] \in Keys(hits)

(***************************************************************************)
(* C9: two runs of a discovery loop from the same base, seeds, rules and   *)
(* maxDepth against the same site return the same hit map.                 *)
(***************************************************************************)
C9_SameHitMap ==
    (run = 2 /\ pc = "done" /\ Discovering) => hits = prev

\* a second run that fetched pages and found hits is over
C9_Witness ==
    /\ run = 2 /\ pc = "done" /\ Discovering
    /\ Len(fetched) >= 2
    /\ Cardinality(hits) >= 2

(***************************************************************************)
(* C10: parse_sitemap resolves nested indexes: on an index whose child is  *)
(* an index whose child is a URL-set it returns the entries of the         *)
(* URL-set, and on any acyclic tree of well-formed indexes the entries of  *)
(* the URL-sets at its leaves.                                             *)
(***************************************************************************)
ChildrenOf(w, a) ==
    IF w.maps[a].status = "ok" /\ w.maps[a].root = "sitemapindex"
    THEN Range(w.maps[a].locs) \ {None} ELSE {}

RECURSIVE Below(_, _, _)
Below(w, S, n) ==
    IF n = 0 THEN S
    ELSE Below(w, S \cup UNION { ChildrenOf(w, x) : x \in S }, n - 1)

Reach(w, a) == Below(w, {a}, Cardinality(SmNames))

WellFormed(d) ==
    /\ d.status = "ok"
    /\ \/ d.root = "sitemapindex" /\ None \notin Range(d.locs)
       \/ d.root = "urlset" /\ NoUrl \notin Range(d.locs)

CleanTree(w, a) ==
    \A x \in Reach(w, a) :
        /\ WellFormed(w.maps[x])
        /\ x \notin Below(w, ChildrenOf(w, x), Cardinality(SmNames))

IsDoc(d, root, locs) == d.status = "ok" /\ d.root = root /\ d.locs = locs

LeafUrls(w, a) ==
    UNION { Range(w.maps[x].locs) : x \in { y \in Reach(w, a) : w.maps[y].root = "urlset" } }

C10_NestedIndexes ==
    call[1] = "parse_sitemap" =>
        /\ CleanTree(web, call[2]) => Range(call[3]) = LeafUrls(web, call[2])
        /\ \A b, c \in SmNames :
              ( /\ Cardinality({call[2], b, c}) = 3
                /\ IsDoc(web.maps[call[2]], "sitemapindex", <<b>>)
                /\ IsDoc(web.maps[b], "sitemapindex", <<c>>)
                /\ web.maps[c].status = "ok" /\ web.maps[c].root = "urlset"
                /\ NoUrl \notin Range(web.maps[c].locs) )
              => call[3] = web.maps[c].locs

\* index -> index -> URL-set of two entries, resolved from the outer index
C10_Witness ==
    /\ call[1] = "parse_sitemap" /\ call[2] = "sm1"
    /\ IsDoc(web.maps["sm1"], "sitemapindex", <<"sm2">>)
    /\ IsDoc(web.maps["sm2"], "sitemapindex", <<"sm3">>)
    /\ IsDoc(web.maps["sm3"], "urlset", <<About, Old>>)
    /\ call[3] = <<About, Old>>

(***************************************************************************)
(* C11: when robots.txt is absent (404) or its fetch fails, discover_all   *)
(* does not raise, the hit map holds no sitemap entry (every key is the    *)
(* canonical URL of a page the loop fetched), and the loop runs over the   *)
(* seeds: the queue starts as the same-domain seeds and every one of them  *)
(* is visited when the run returns.                                        *)
(***************************************************************************)
C11_NoRobots ==
    (engine = "discover_all" /\ web.robots.status # "ok") =>
        /\ pc # "raised"
        /\ \A h \in hits : \E s \in FetchedUrls : Processed(s) /\ h[1] = CanOf(s)
        /\ (pc = "loop" /\ seen = {}) => q = SeedQueue(seeds)
        /\ pc = "done" => SameDomainSeeds \subseteq seen

\* robots.txt could not be fetched, the sitemap it would name is served, and
\* the run fetched its seeds and returned hits
C11_Witness ==
    /\ engine = "discover_all" /\ web = DownWeb /\ pc = "done"
    /\ Len(fetched) >= 2
    /\ hits # {}
    /\ Plan \notin Keys(hits)

(***************************************************************************)
(* C12: the scenario of the specification.  Base example.com, seeds        *)
(* [https://example.com/], include rules [(^/plans/, "plan")], no exclude  *)
(* rule, no sitemap, / links to /plans/unlimited and /about, which are     *)
(* served without links: the run returns exactly                           *)
(* {/plans/unlimited: "plan"}, and /about was fetched.                     *)
(***************************************************************************)
LinkPage == [canon |-> NoHref, links |-> <<HPath(Plan.path, ""), HPath(About.path, "")>>]
LeafPage == [canon |-> NoHref, links |-> <<>>]

\* the site serves page p for u, whether or not u has been requested yet
ServedAs(u, p) ==
    u \in DOMAIN served => served[u] = Page("ok", u, p.canon, p.links)

Scenario ==
    /\ Discovering
    /\ seeds = <<Root>>
    /\ allow = <<Rule(Pat(TRUE, "plans"), "plan")>> /\ block = <<>>
    /\ web = NoWeb
    /\ max_depth >= 1
    /\ ServedAs(Root, LinkPage) /\ ServedAs(Plan, LeafPage) /\ ServedAs(About, LeafPage)

C12_Scenario ==
    (Scenario /\ pc = "done") =>
        /\ hits = { <<Plan, "plan">> }
        /\ FetchedUrls = {Root, Plan, About}

\* the scenario has run to its return in discover_all
C12_Witness ==
    /\ Scenario /\ pc = "done" /\ engine = "discover_all"
    /\ {Root, Plan, About} \subseteq DOMAIN served
    /\ <<About, None>> \notin hits
    /\ Len(fetched) = 3

(***************************************************************************)
(* C13: the visited set belongs to one run: a second run in the same       *)
(* process starts its loop with an empty visited set and returns what the  *)
(* first run returned against the same site.                               *)
(***************************************************************************)
C13_VisitedPerRun ==
    run = 2 =>
        /\ (pc = "loop" /\ fetched = <<>> /\ cur = NoCur)
              => (IF engine = "crawl" THEN visited ELSE seen) = {}
        /\ pc = "done" => Returned = prev

(***************************************************************************)
(* C14: in every state of a run every entry (u, e) of the hit map is in    *)
(* scope: the path of u matches no exclude rule and e is the hint of the   *)
(* first include rule, in configured order, that matches it; and no step   *)
(* removes an entry or gives a URL another entity.                         *)
(***************************************************************************)
Matching(u) == { i \in 1..Len(allow) : Search(allow[i].pat, u.path) }

InScopeEntry(u, e) ==
    /\ ~Excluded(u)
    /\ \E i \in Matching(u) :
          /\ allow[i].hint = e
          /\ \A j \in Matching(u) : i <= j

C14_HitsInScope ==
    /\ [](\A h \in hits : InScopeEntry(h[1], h[2]))
    /\ [][hits \subseteq hits']_vars

\* the run recorded a URL that two include rules match, and fetched a page
\* whose canonical URL an include rule and an exclude rule match
C14_Witness ==
    /\ pc = "done" /\ Discovering
    /\ \E h \in hits : Cardinality(Matching(h[1])) >= 2
    /\ \E u \in FetchedUrls :
          /\ Processed(u)
          /\ Excluded(CanOf(u)) /\ Matching(CanOf(u)) # {}
          /\ CanOf(u) \notin Keys(hits)

(***************************************************************************)
(* C15: when a fetched page declares no canonical link, the URL that is    *)
(* classified and recorded is the URL actually served (the final URL       *)
(* after redirects): if the served URL is in scope, it is a key of the hit *)
(* map with its entity.                                                    *)
(***************************************************************************)
C15_ServedUrlIsCanonical ==
    Discovering =>
        \A u \in FetchedUrls :
            (Processed(u) /\ served[u].canon = NoHref) =>
                LET f  == served[u].final
                    sc == in_scope(f, allow, block)
                IN  sc[1] => <<f, sc[2]>> \in hits

(***************************************************************************)
(* C16: a dequeued entry whose URL is not visited and whose depth is at    *)
(* most maxDepth is processed at the depth of that entry; an entry whose   *)
(* URL is visited (every fetched URL is) or whose depth exceeds maxDepth   *)
(* is discarded without a fetch and the loop goes on; a URL whose first    *)
(* entry was discarded for its depth is never fetched later; and the loop  *)
(* returns only from an empty queue.                                       *)
(***************************************************************************)
QueueUrls == {Root, Plan, PlanA, Old, About}

OverDepth(u) ==
    /\ Discovering /\ pc = "loop" /\ q # <<>>
    /\ Head(q)[1] = u /\ Head(q)[2] > max_depth /\ u \notin seen

C16_FirstDequeued ==
    /\ [][ (Discovering /\ pc = "loop" /\ q # <<>>) =>
             /\ q' = Tail(q)
             /\ IF Head(q)[1] \in seen \/ Head(q)[2] > max_depth
                THEN /\ pc' = "loop" /\ fetched' = fetched /\ cur' = cur
                     /\ seen' = seen /\ hits' = hits
                ELSE /\ pc' = "fetch" /\ cur' = Head(q) ]_vars
    /\ [][ (Discovering /\ pc = "fetch") => fetched' = Append(fetched, cur) ]_vars
    /\ [][ (Discovering /\ pc' = "done") => (pc = "loop" /\ q = <<>>) ]_vars
    /\ [](Discovering => FetchedUrls \subseteq seen)
    /\ \A u \in QueueUrls : [](OverDepth(u) => [](u \notin FetchedUrls))

\* a second entry for a fetched URL, of another depth than the one it was
\* fetched at, is at the head of a queue that holds more entries
C16_Witness ==
    /\ Discovering /\ pc = "loop" /\ Len(q) >= 2
    /\ \E i \in 1..Len(fetched) :
          fetched[i][1] = Head(q)[1] /\ fetched[i][2] # Head(q)[2]

(***************************************************************************)
(* C17: every URL in the frontier queue, every URL being processed and     *)
(* every URL fetched is in-domain (its network location ends with the      *)
(* base's), and the queue starts as (seed, 0) for exactly the in-domain    *)
(* seeds, in their order.                                                  *)
(***************************************************************************)
InDomain(u) == EndsWith(u.host, base.host)

InDomainSeeds == SelectSeq(seeds, LAMBDA s : InDomain(s))

C17_QueueInDomain ==
    Discovering =>
        /\ \A i \in 1..Len(q) : InDomain(q[i][1])
        /\ \A i \in 1..Len(fetched) : InDomain(fetched[i][1])
        /\ cur # NoCur => InDomain(cur[1])
        /\ (pc = "loop" /\ seen = {})
              => q = [i \in 1..Len(InDomainSeeds) |-> <<InDomainSeeds[i], 0>>]

\* a run with an off-domain seed that fetched a page linking off-domain
C17_Witness ==
    /\ Discovering /\ pc = "done"
    /\ OffPlan \in Range(seeds)
    /\ Len(fetched) >= 2
    /\ \E u \in FetchedUrls :
          /\ Processed(u)
          /\ \E k \in 1..Len(served[u].links) : served[u].links[k] = HAbs(OffPlan)

(***************************************************************************)
(* C18: completeness.  When every fetch of the run succeeded, every        *)
(* in-domain URL within maxDepth links of a same-domain seed has been      *)
(* fetched when the run returns (or is the canonical URL of a fetched      *)
(* page, which the visited set treats as fetched), and the canonical URL   *)
(* of its page is in the hit map if it is in scope.                        *)
(***************************************************************************)
AllOk == \A u \in DOMAIN served : served[u].status = "ok"

\* the in-domain pages the page served for u links to
LinkTargets(u) ==
    IF u \in DOMAIN served
    THEN { t \in { StripFragment(urljoin(served[u].final, served[u].links[k])) :
                   k \in { j \in 1..Len(served[u].links) : ~Raises(served[u].links[j]) } } :
           InDomain(t) }
    ELSE {}

RECURSIVE Within(_, _)
Within(S, n) ==
    IF n = 0 THEN S
    ELSE Within(S \cup UNION { LinkTargets(u) : u \in S }, n - 1)

Reachable == Within({ s \in Range(seeds) : InDomain(s) }, max_depth)

Covered(u) ==
    \/ u \in FetchedUrls
    \/ \E s \in FetchedUrls : Processed(s) /\ CanOf(s) = u

C18_Complete ==
    (Discovering /\ pc = "done" /\ AllOk) =>
        \A u \in Reachable :
            /\ Covered(u)
            /\ (u \in FetchedUrls /\ Processed(u) /\ in_scope(CanOf(u), allow, block)[1])
                  => CanOf(u) \in Keys(hits)

(***************************************************************************)
(* C19: every URL returned by sitemap resolution that is same-domain as    *)
(* the base and in scope is in the hit map with its entity from the end    *)
(* of the sitemap phase on, before any fetch, and in every later state of  *)
(* the run, whether or not the loop fetches the URL and whatever the       *)
(* outcome of that fetch.                                                  *)
(***************************************************************************)
C19_SitemapHitsKept ==
    (engine = "discover_all" /\ pc # "start") =>
        \A u \in SitemapUrls :
            \A i \in Matching(u) :
                (InDomain(u) /\ ~Excluded(u) /\ \A j \in Matching(u) : i <= j)
                    => <<u, allow[i].hint>> \in hits

\* the run is over; one sitemap hit was fetched and the fetch failed, and
\* another was never fetched
C19_Witness ==
    /\ engine = "discover_all" /\ pc = "done"
    /\ \E u, v \in SitemapUrls \cap Keys(hits) :
          /\ u \in FetchedUrls /\ served[u].status # "ok"
          /\ v \notin FetchedUrls

\* C19 as stated: every in-scope URL of the sitemaps, whatever its domain
C19_Original ==
    (engine = "discover_all" /\ pc # "start") =>
        \A u \in SitemapUrls :
            \A i \in Matching(u) :
                (~Excluded(u) /\ \A j \in Matching(u) : i <= j)
                    => <<u, allow[i].hint>> \in hits

(***************************************************************************)
(* C20: a failure in one sitemap stays in its branch.  parse_sitemap on a  *)
(* sitemap that answers non-200, cannot be fetched or is not sitemap XML   *)
(* returns the empty list, and parse_sitemap on an index returns the       *)
(* entries of every well-formed URL-set the index lists, whatever fails    *)
(* among the entries listed before or after it.                            *)
(***************************************************************************)
GoodLeaf(d) == d.status = "ok" /\ d.root = "urlset" /\ NoUrl \notin Range(d.locs)

C20_FailureIsolated ==
    call[1] = "parse_sitemap" =>
        LET d == web.maps[call[2]]
        IN  /\ (d.status # "ok" \/ d.root = "malformed") => call[3] = <<>>
            /\ (d.status = "ok" /\ d.root = "sitemapindex") =>
                  \A k \in 1..Len(d.locs) :
                      (d.locs[k] # None /\ GoodLeaf(web.maps[d.locs[k]]))
                          => Range(web.maps[d.locs[k]].locs) \subseteq Range(call[3])

Frontier == IF engine = "crawl" THEN to_visit ELSE q

C22_QueueDepths ==
    engine \in Engines =>
        /\ \A i, j \in 1..Len(Frontier) : i <= j => Frontier[i][2] <= Frontier[j][2]
        /\ \A i, j \in 1..Len(Frontier) : Frontier[j][2] - Frontier[i][2] <= 1
        /\ \A i \in 1..Len(Frontier) :
              /\ Frontier[i][2] <= max_depth + 1
              /\ cur # NoCur => cur[2] <= Frontier[i][2] /\ Frontier[i][2] <= cur[2] + 1
              /\ \A k \in 1..Len(fetched) : fetched[k][2] <= Frontier[i][2]
        /\ \A i, j \in 1..Len(fetched) : i <= j => fetched[i][2] <= fetched[j][2]

\* the queue holds entries of two depths, the deeper beyond maxDepth, and a
\* second entry for a URL that was fetched at a smaller depth
C22_Witness ==
    /\ Discovering /\ pc = "loop" /\ Len(q) >= 2
    /\ q[1][2] < q[Len(q)][2]
    /\ q[Len(q)][2] = max_depth + 1
    /\ \E i \in 1..Len(q), k \in 1..Len(fetched) :
          q[i][1] = fetched[k][1] /\ fetched[k][2] < q[i][2]

(***************************************************************************)
(* C23: every key of the hit map is an in-domain URL: its network          *)
(* location ends with the base's network location.                         *)
(***************************************************************************)
C23_HitsInDomain ==
    Discovering => \A h \in hits : InDomain(h[1])

(***************************************************************************)
(* C24: crawl never holds more than max_pages results, the urls of its     *)
(* results are distinct, every result is a page it fetched, and it fetches *)
(* no page once the number of results has reached max_pages.               *)
(***************************************************************************)
C24_PageLimit ==
    /\ [](engine = "crawl" =>
            /\ Len(results) <= max_pages
            /\ \A i, j \in 1..Len(results) : results[i] = results[j] => i = j
            /\ Range(results) \subseteq FetchedUrls)
    /\ [][ (engine = "crawl" /\ fetched' # fetched) => Len(results) < max_pages ]_vars

\* crawl returned because of the page limit, with entries left in its queue
C24_Witness ==
    /\ engine = "crawl" /\ pc = "done"
    /\ max_pages = MaxPages
    /\ Len(results) = max_pages
    /\ to_visit # <<>>
    /\ \E i \in 1..Len(to_visit) : to_visit[i][1] \notin visited

====
